---- MODULE Spec2Model ----
(***************************************************************************)
(* elaru: an LRU cache built on a hash map whose entries are linked to     *)
(* each other by key (src/src/lib.rs).  The model keeps the fields of      *)
(* LRUCache as variables and translates every method, Iter::next included, *)
(* into an operator on a cache record, so that a call can be evaluated on  *)
(* any state.  A failed expect() is a panic: it ends the run.              *)
(***************************************************************************)
EXTENDS Integers, Sequences, FiniteSets, TLC

\* Keys are u16 in the source; the model draws them from 0..MaxKey.
MaxKey == 3
\* Values of the generic type T are drawn from 1..MaxVal.
MaxVal == 2
\* Capacities handed to new() are drawn from 0..MaxCap.
MaxCap == 3

Keys == 0..MaxKey
Vals == 1..MaxVal

VARIABLES
    entries,    \* LRUCache.entries : HashMap<u16, Entry<T>>
    head,       \* LRUCache.head
    tail,       \* LRUCache.tail
    capacity,   \* LRUCache.capacity
    panicked,   \* TRUE once an expect("Invalid entry access") has failed
    last,       \* the name of the last method called on the cache
    inserted    \* the keys given to insert so far, while no other method has changed the cache

vars == <<entries, head, tail, capacity, panicked, last, inserted>>

\* Option<T>
None == <<>>
Some(x) == <<x>>

\* struct Entry<T> { val, prev, next }
Entry(v, p, n) == [val |-> v, prev |-> p, next |-> n]

\* The empty HashMap.
EmptyMap == [k \in {} |-> Entry(1, 0, 0)]

\* HashMap::insert / HashMap::remove on the entries map.
MapPut(m, k, e) == [x \in (DOMAIN m) \cup {k} |-> IF x = k THEN e ELSE m[x]]
MapDel(m, k) == [x \in (DOMAIN m) \ {k} |-> m[x]]

\* The cache as one record: the struct's fields plus the panic flag.
self == [entries |-> entries, head |-> head, tail |-> tail, capacity |-> capacity, panic |-> panicked]

\* A failed expect("Invalid entry access"): the call unwinds, leaving the fields as they are.
Panic(s) == [s EXCEPT !.panic = TRUE]

\* LRUCache::new
new(cap) == [entries |-> EmptyMap, head |-> 0, tail |-> 0, capacity |-> cap, panic |-> FALSE]

\* LRUCache::len
len(s) == Cardinality(DOMAIN s.entries)

\* LRUCache::remove_lru: remove the entry keyed by tail, if there is one.
remove_lru(s) ==
    IF s.tail \in DOMAIN s.entries
    THEN LET old_tail == s.entries[s.tail]
         IN  [s   |-> [s EXCEPT !.entries = MapDel(s.entries, s.tail), !.tail = old_tail.prev],
              ret |-> Some(<<s.tail, old_tail.val>>)]
    ELSE [s |-> s, ret |-> None]

\* push_front that, on the only entry of the map, sets tail and leaves head.
push_front_keeps_head(s, i) ==
    IF s.panic THEN s
    ELSE IF len(s) = 1
    THEN [s EXCEPT !.tail = i]
    ELSE IF i \notin DOMAIN s.entries THEN Panic(s)
    ELSE LET s1 == [s EXCEPT !.entries[i].next = s.head]
         IN  IF s1.head \notin DOMAIN s1.entries THEN Panic(s1)
             ELSE [s1 EXCEPT !.entries[s1.head].prev = i, !.head = i]

\* LRUCache::push_front
push_front(s, i) ==
    IF s.panic THEN s
    ELSE IF len(s) = 1
    THEN [s EXCEPT !.tail = i, !.head = i]
    ELSE IF i \notin DOMAIN s.entries THEN Panic(s)
    ELSE LET s1 == [s EXCEPT !.entries[i].next = s.head]
         IN  IF s1.head \notin DOMAIN s1.entries THEN Panic(s1)
             ELSE [s1 EXCEPT !.entries[s1.head].prev = i, !.head = i]

\* LRUCache::evict: unlink entry i from the list, keeping it in the map.
evict(s, i) ==
    IF s.panic THEN s
    ELSE IF i \notin DOMAIN s.entries THEN Panic(s)
    ELSE LET prev == s.entries[i].prev
             next == s.entries[i].next
             s1 == IF i = s.head THEN [s EXCEPT !.head = next]
                   ELSE IF prev \notin DOMAIN s.entries THEN Panic(s)
                   ELSE [s EXCEPT !.entries[prev].next = next]
         IN  IF s1.panic THEN s1
             ELSE IF i = s1.tail THEN [s1 EXCEPT !.tail = prev]
             ELSE IF next \notin DOMAIN s1.entries THEN Panic(s1)
             ELSE [s1 EXCEPT !.entries[next].prev = prev]

\* LRUCache::touch_index
touch_index(s, idx) ==
    IF idx # s.head THEN push_front(evict(s, idx), idx) ELSE s

\* get that touches the entry without testing that the key is in the map.
get_unguarded(s, key) ==
    LET s1 == touch_index(s, key)
    IN  [s   |-> s1,
         ret |-> IF s1.panic THEN None
                 ELSE IF key \in DOMAIN s1.entries THEN Some(s1.entries[key].val) ELSE None]

\* LRUCache::get: a hit touches the entry; the result is the value now stored.
get(s, key) ==
    LET s1 == IF key \in DOMAIN s.entries THEN touch_index(s, key) ELSE s
    IN  [s   |-> s1,
         ret |-> IF s1.panic THEN None
                 ELSE IF key \in DOMAIN s1.entries THEN Some(s1.entries[key].val) ELSE None]

\* LRUCache::get_mut: as get; the caller may store w through the reference it gets.
get_mut(s, key, w) ==
    LET r == get(s, key)
    IN  IF r.ret = None THEN r
        ELSE [s |-> [r.s EXCEPT !.entries[key].val = w], ret |-> r.ret]

\* insert_evict with the eviction left out, as the "unbound" feature builds it.
insert_evict_unbound(s) == s

\* The first statement of insert (default build): a full cache drops its tail entry.
insert_evict(s) ==
    IF len(s) = s.capacity
    THEN LET r == remove_lru(s)
         IN  IF r.ret = None THEN Panic(s) ELSE r.s
    ELSE s

\* LRUCache::insert
insert(s, key, val) ==
    LET s1 == insert_evict(s)
    IN  IF s1.panic THEN [s |-> s1, ret |-> None]
        ELSE IF key \in DOMAIN s1.entries
        THEN LET e == s1.entries[key]
                 s2 == [s1 EXCEPT !.entries[key] = Entry(val, e.prev, e.next)]
             IN  [s |-> push_front(s2, key), ret |-> Some(e.val)]
        ELSE LET s2 == [s1 EXCEPT !.entries = MapPut(s1.entries, key, Entry(val, 0, 0))]
             IN  [s |-> push_front(s2, key), ret |-> None]

\* clear that resets head and tail and forgets to empty the map.
clear_keeps_map(s) == [s EXCEPT !.head = 0, !.tail = 0]

\* LRUCache::clear
clear(s) == [s EXCEPT !.entries = EmptyMap]

\* LRUCache::iter: the fields of a fresh Iter.
iter(s) == [pos |-> s.head, done |-> (len(s) = 0)]

\* Iter::next on a cursor c over cache s: the cursor after the call and what it returns.
next(s, c) ==
    IF c.done THEN [c |-> c, ret |-> None, panic |-> FALSE]
    ELSE IF c.pos \notin DOMAIN s.entries THEN [c |-> c, ret |-> None, panic |-> TRUE]
    ELSE LET entry == s.entries[c.pos]
         IN  [c     |-> [pos |-> entry.next, done |-> (c.done \/ c.pos = s.tail)],
              ret   |-> Some(<<c.pos, entry.val>>),
              panic |-> FALSE]

----------------------------------------------------------------------------
\* A cursor that has yielded more items than there are keys has repeated a
\* position without meeting tail, so it never stops: IterFuel calls decide it.
IterFuel == Cardinality(Keys) + 1

\* Iter::next called on cursor c until it returns None: the pairs it yielded, how
\* the loop ended ("done", "panic", or "loop" when it never ends) and the cursor left.
RECURSIVE drain(_, _, _, _)
drain(s, c, acc, fuel) ==
    LET r == next(s, c)
    IN  IF r.panic THEN [items |-> acc, end |-> "panic", c |-> c]
        ELSE IF r.ret = None THEN [items |-> acc, end |-> "done", c |-> c]
        ELSE IF fuel = 0 THEN [items |-> acc, end |-> "loop", c |-> c]
        ELSE drain(s, r.c, Append(acc, r.ret[1]), fuel - 1)

\* cache.iter() run to its end.
traverse(s) == drain(s, iter(s), <<>>, IterFuel)

\* tests/test.rs items(): the keys cache.iter() yields, in order.
items(s) == [i \in 1..Len(traverse(s).items) |-> traverse(s).items[i][1]]

----------------------------------------------------------------------------
\* The value of inserted once a method other than insert has changed the cache.
Void == {-1}

Init ==
    /\ capacity \in 0..MaxCap
    /\ entries = EmptyMap
    /\ head = 0
    /\ tail = 0
    /\ panicked = FALSE
    /\ last = "new"
    /\ inserted = {}

\* The cache takes the fields of record s.
Becomes(s) ==
    /\ entries' = s.entries
    /\ head' = s.head
    /\ tail' = s.tail
    /\ panicked' = s.panic
    /\ UNCHANGED capacity

\* A method can be called until one has panicked.
Callable == ~panicked

Insert(k, v) ==
    /\ Callable
    /\ LET r == insert(self, k, v)
       IN  Becomes(r.s) /\ last' = "insert"
    /\ inserted' = IF inserted = Void THEN Void ELSE inserted \cup {k}

Get(k) ==
    /\ Callable
    /\ LET r == get(self, k)
       IN  Becomes(r.s) /\ last' = "get"
    /\ inserted' = Void

GetMut(k, w) ==
    /\ Callable
    /\ LET r == get_mut(self, k, w)
       IN  Becomes(r.s) /\ last' = "get_mut"
    /\ inserted' = Void

RemoveLru ==
    /\ Callable
    /\ LET r == remove_lru(self)
       IN  Becomes(r.s) /\ last' = "remove_lru"
    /\ inserted' = Void

Clear ==
    /\ Callable
    /\ Becomes(clear(self))
    /\ last' = "clear"
    /\ inserted' = Void

\* for (k, v) in cache.iter() { .. }: a cursor is made and called until it returns
\* None; the borrow it holds keeps every other method out until the loop ends.
Iterate ==
    /\ Callable
    /\ LET r == traverse(self)
       IN  /\ panicked' = (r.end = "panic")
           /\ last' = "iter"
    /\ UNCHANGED <<entries, head, tail, capacity, inserted>>

Next ==
    \/ \E k \in Keys, v \in Vals : Insert(k, v)
    \/ \E k \in Keys : Get(k)
    \/ \E k \in Keys, w \in Vals : GetMut(k, w)
    \/ RemoveLru
    \/ Clear
    \/ Iterate

Spec == Init /\ [][Next]_vars

----------------------------------------------------------------------------
\* Helpers of the properties below.

\* Sequence q without the element k.
Without(q, k) == SelectSeq(q, LAMBDA x : x # k)

\* No element occurs twice in sequence q.
NoDup(q) == \A i, j \in 1..Len(q) : q[i] = q[j] => i = j

\* The elements of sequence q.
Range(q) == {q[i] : i \in 1..Len(q)}

\* iter() on cache s comes to an end without a panic.
Finite(s) == traverse(s).end = "done"

\* What a call on a present key must leave: key k first, the rest as they were.
MovedToFront(before, after, k) ==
    /\ Finite(before)
    /\ Finite(after)
    /\ items(after) = <<k>> \o Without(items(before), k)

----------------------------------------------------------------------------
\* C1: in the default build, insert of a key that is not present into a full cache
\* (len = capacity >= 1) removes exactly one key, the last one iter() yielded
\* before the call; afterwards len is still capacity, iter() yields at most
\* capacity keys, every other key is still present and get of the removed key
\* returns None.  (Where iter() before the call has no end, any one key may be
\* the removed one.)
C1_InsertEvictsLeastRecent ==
    [][\A k \in Keys, v \in Vals :
        (Insert(k, v) /\ capacity >= 1 /\ len(self) = capacity /\ k \notin DOMAIN entries)
        => /\ ~panicked'
           /\ \E lru \in DOMAIN entries :
                  /\ Finite(self) =>
                         (Len(items(self)) >= 1 /\ lru = items(self)[Len(items(self))])
                  /\ DOMAIN entries' = ((DOMAIN entries) \ {lru}) \cup {k}
                  /\ get(self', lru).ret = None
           /\ len(self') = capacity
           /\ Finite(self')
           /\ Len(items(self')) <= capacity]_vars

\* C2: get(k) or get_mut(k) on a present key returns the value stored for k, and
\* afterwards iter() yields k first and then the other keys in the order they had;
\* len and the key set are unchanged.  (Where iter() before the call has no end,
\* the order of the other keys is left open.)
C2_HitMovesToFront ==
    [][\A k \in Keys :
        ((Get(k) \/ \E w \in Vals : GetMut(k, w)) /\ k \in DOMAIN entries)
        => /\ ~panicked'
           /\ get(self, k).ret = Some(entries[k].val)
           /\ Finite(self')
           /\ Len(items(self')) >= 1
           /\ items(self')[1] = k
           /\ Finite(self) => MovedToFront(self, self', k)
           /\ DOMAIN entries' = DOMAIN entries
           /\ len(self') = len(self)]_vars

\* C3: insert(k, v) returns Some(old), old the value stored for k before the call,
\* whenever k was present, and None exactly when k was not present; also when the
\* cache is full.  (A cache of capacity 0 is left to C20.)
C3_InsertReturnsOld ==
    [][\A k \in Keys, v \in Vals :
        (Insert(k, v) /\ capacity >= 1)
        => /\ ~panicked'
           /\ insert(self, k, v).ret =
                  IF k \in DOMAIN entries THEN Some(entries[k].val) ELSE None]_vars

\* C4: insert of a key that is already present never removes a key: the key set
\* and len are the same before and after the call, also when the cache is full.
C4_OverwriteEvictsNothing ==
    [][\A k \in Keys, v \in Vals :
        (Insert(k, v) /\ k \in DOMAIN entries)
        => /\ ~panicked'
           /\ DOMAIN entries' = DOMAIN entries
           /\ len(self') = len(self)]_vars

\* The keys met by following next links from head, up to and including tail; the
\* walk also ends at a key that is not in the table or when more links have been
\* followed than there are keys.
RECURSIVE Links(_, _, _, _)
Links(s, k, acc, fuel) ==
    IF k \notin DOMAIN s.entries \/ fuel = 0 THEN acc
    ELSE IF k = s.tail THEN Append(acc, k)
    ELSE Links(s, s.entries[k].next, Append(acc, k), fuel - 1)

\* C5: after every public operation on a cache with at least one entry, following
\* next links from head reaches tail after visiting exactly the keys of the table,
\* each exactly once.
C5_ListIsTable ==
    (~panicked /\ len(self) >= 1)
    => LET walk == Links(self, head, <<>>, IterFuel)
       IN  /\ Len(walk) >= 1
           /\ walk[Len(walk)] = tail
           /\ NoDup(walk)
           /\ Range(walk) = DOMAIN entries

\* C6: a cursor obtained from iter() terminates: it yields exactly len() pairs with
\* pairwise distinct keys, stops after yielding the tail, and returns None on
\* every later call to next().
C6_CursorTerminates ==
    ~panicked
    => LET t == traverse(self)
           again == next(self, t.c)
       IN  /\ t.end = "done"
           /\ Len(t.items) = len(self)
           /\ NoDup(items(self))
           /\ (len(self) >= 1 => items(self)[Len(items(self))] = tail)
           /\ again.ret = None
           /\ next(self, again.c).ret = None

\* C7: for a cache with len < capacity, insert(k, v) with k already present (head,
\* tail or in the middle) leaves len unchanged and makes iter() yield k first and
\* then all other keys in their unchanged order.
C7_OverwriteMovesToFront ==
    [][\A k \in Keys, v \in Vals :
        (Insert(k, v) /\ k \in DOMAIN entries /\ len(self) < capacity)
        => /\ ~panicked'
           /\ len(self') = len(self)
           /\ MovedToFront(self, self', k)]_vars

\* C8: with len >= 1, remove_lru() returns Some((k, v)), k the last key iter()
\* yielded before the call and v its value; len decreases by 1, k is absent
\* afterwards and iter() yields the previous order without its last element.  On
\* an empty cache remove_lru() returns None and len stays 0.  (Where iter() before
\* the call has no end, k may be any key of the table.)
C8_RemoveLruTakesLast ==
    [][RemoveLru
        => IF len(self) = 0
           THEN remove_lru(self).ret = None /\ len(self') = 0
           ELSE /\ remove_lru(self).ret # None
                /\ LET k == remove_lru(self).ret[1][1]
                       n == Len(items(self))
                   IN  /\ k \in DOMAIN entries
                       /\ remove_lru(self).ret = Some(<<k, entries[k].val>>)
                       /\ k \notin DOMAIN entries'
                       /\ Finite(self) =>
                              /\ n >= 1
                              /\ k = items(self)[n]
                              /\ Finite(self')
                              /\ items(self') = SubSeq(items(self), 1, n - 1)
                /\ len(self') = len(self) - 1]_vars

\* C9: in the default build len() <= capacity() holds after every public
\* operation, for every sequence of calls on a cache of capacity >= 1.
C9_LenWithinCapacity ==
    capacity >= 1 => len(self) <= capacity

\* A full cache into which more distinct keys have gone than it holds: an insert
\* has made room by dropping an entry.
C9_Witness ==
    /\ last = "insert"
    /\ capacity >= 1
    /\ len(self) = capacity
    /\ inserted # Void
    /\ Cardinality(inserted) > capacity

\* C10: starting from an empty cache, after insert calls only (keys may repeat)
\* with no more distinct keys than capacity, len() is the number of distinct keys
\* inserted.
C10_LenCountsDistinctKeys ==
    (inserted # Void /\ Cardinality(inserted) <= capacity)
    => len(self) = Cardinality(inserted)

\* C11: link symmetry after every public operation: for every key a of the table
\* other than tail, b = table[a].next is in the table and table[b].prev = a; for
\* every key b other than head, a = table[b].prev is in the table and
\* table[a].next = b.
C11_LinkSymmetry ==
    ~panicked
    => /\ \A a \in (DOMAIN entries) \ {tail} :
              /\ entries[a].next \in DOMAIN entries
              /\ entries[entries[a].next].prev = a
       /\ \A b \in (DOMAIN entries) \ {head} :
              /\ entries[b].prev \in DOMAIN entries
              /\ entries[entries[b].prev].next = b

\* C12: after every public operation that leaves the cache non-empty, head and
\* tail are keys of the table, and they are the same key whenever len() = 1.
C12_HeadTailPresent ==
    (~panicked /\ len(self) >= 1)
    => /\ head \in DOMAIN entries
       /\ tail \in DOMAIN entries
       /\ (len(self) = 1 => head = tail)

\* remove_lru() called on cache s until it returns None: the keys it returned, in
\* the order of the calls.
RECURSIVE Drained(_, _, _)
Drained(s, acc, fuel) ==
    LET r == remove_lru(s)
    IN  IF r.ret = None \/ fuel = 0 THEN acc
        ELSE Drained(r.s, Append(acc, r.ret[1][1]), fuel - 1)

\* Sequence q back to front.
Reverse(q) == [i \in 1..Len(q) |-> q[Len(q) + 1 - i]]

\* C13: the keys iter() yields are exactly the reverse of the keys returned by
\* calling remove_lru() until it returns None, and that drain returns len()
\* entries.
C13_IterReversesDrain ==
    ~panicked
    => LET out == Drained(self, <<>>, IterFuel)
       IN  /\ Finite(self)
           /\ Len(out) = len(self)
           /\ items(self) = Reverse(out)

\* insert called on cache s with the keys of sequence q in turn, each with value 1.
RECURSIVE Inserted(_, _)
Inserted(s, q) ==
    IF q = <<>> THEN s ELSE Inserted(insert(s, Head(q), 1).s, Tail(q))

\* The sequences of at most n pairwise distinct keys.
DistinctKeys(n) ==
    {q \in UNION {[1..m -> Keys] : m \in 0..n} : NoDup(q)}

\* The cache as clear() leaves it: empty to len(), iter() and get, and taking
\* distinct keys (no more of them than capacity) in reverse insertion order.
Cleared ==
    /\ ~panicked
    /\ len(self) = 0
    /\ Finite(self)
    /\ items(self) = <<>>
    /\ \A k \in Keys : get(self, k).ret = None /\ ~get(self, k).s.panic
    /\ \A q \in DistinctKeys(capacity) :
           LET s == Inserted(self, q)
           IN  ~s.panic /\ Finite(s) /\ items(s) = Reverse(q)

\* C14: clear() leaves len() = 0, iter() yielding nothing and get of every key
\* returning None; capacity() is unchanged, and distinct keys inserted afterwards
\* (no more of them than capacity) are again yielded in reverse insertion order.
C14_ClearEmpties ==
    /\ [](last = "clear" => Cleared)
    /\ [][Clear => capacity' = capacity /\ len(self') = 0]_vars

\* A cache that clear() has emptied of several entries, its head and tail left stale.
C14_Witness ==
    /\ last = "clear"
    /\ len(self) = 0
    /\ capacity >= 2
    /\ head # tail

\* Key k is the first key iter() yields on cache s.
YieldsFirst(s, k) ==
    /\ ~s.panic
    /\ traverse(s).items # <<>>
    /\ traverse(s).items[1][1] = k

\* C15: in a cache of capacity >= 1, insert(k, v) followed by get(k) returns v,
\* and k is the first key iter() yields after the insert and after the get.
C15_InsertThenGet ==
    [][\A k \in Keys, v \in Vals :
          (capacity >= 1 /\ Insert(k, v))
          => /\ ~panicked'
             /\ get(self', k).ret = Some(v)
             /\ YieldsFirst(self', k)
             /\ YieldsFirst(get(self', k).s, k)]_vars

\* Cache s to every observer: its size, keys, values, links and iteration.
Unchanged(before, after) ==
    /\ ~after.panic
    /\ after.entries = before.entries
    /\ after.head = before.head
    /\ after.tail = before.tail
    /\ len(after) = len(before)
    /\ traverse(after) = traverse(before)

\* C16: get and get_mut of a key that is not in the map return None, never
\* abort, and leave len(), the keys, the values and the order of iter() as they
\* were; on an empty cache every lookup is such a miss.
C16_MissChangesNothing ==
    [][/\ last' = "get"
          => \A k \in Keys \ DOMAIN entries :
                Get(k) => get(self, k).ret = None /\ Unchanged(self, self')
       /\ last' = "get_mut"
          => \A k \in Keys \ DOMAIN entries, w \in Vals :
                GetMut(k, w) => get_mut(self, k, w).ret = None /\ Unchanged(self, self')]_vars

\* A miss on a non-empty cache: a hit leaves the key it found as head, so a head
\* that is not in the map after a get shows that the get found nothing.
C16_Witness ==
    /\ last = "get"
    /\ ~panicked
    /\ len(self) >= 1
    /\ head \notin DOMAIN entries

\* C17: with capacity >= 1 no sequence of public calls reaches the
\* "Invalid entry access" abort.
C17_NoInvalidEntryAccess ==
    capacity >= 1 => ~panicked

\* The reference LRU list: a sequence of <<key, value>> pairs, most recent first.
MHas(m, k) == \E i \in 1..Len(m) : m[i][1] = k
MVal(m, k) == m[CHOOSE i \in 1..Len(m) : m[i][1] = k][2]
MDrop(m, k) == SelectSeq(m, LAMBDA p : p[1] # k)
MKeys(m) == [i \in 1..Len(m) |-> m[i][1]]

m_insert(m, cap, k, v) ==
    IF MHas(m, k)
    THEN [m |-> <<<<k, v>>>> \o MDrop(m, k), ret |-> Some(MVal(m, k))]
    ELSE [m   |-> <<<<k, v>>>> \o (IF Len(m) = cap THEN SubSeq(m, 1, Len(m) - 1) ELSE m),
          ret |-> None]

m_get(m, k) ==
    IF MHas(m, k)
    THEN [m |-> <<<<k, MVal(m, k)>>>> \o MDrop(m, k), ret |-> Some(MVal(m, k))]
    ELSE [m |-> m, ret |-> None]

m_get_mut(m, k, w) ==
    IF MHas(m, k)
    THEN [m |-> <<<<k, w>>>> \o MDrop(m, k), ret |-> Some(MVal(m, k))]
    ELSE [m |-> m, ret |-> None]

m_remove_lru(m) ==
    IF m = <<>> THEN [m |-> m, ret |-> None]
    ELSE [m |-> SubSeq(m, 1, Len(m) - 1), ret |-> Some(m[Len(m)])]

\* Cache s stands for the reference list m: iter() yields m and len() is its length.
Stands(s, m) ==
    /\ ~s.panic
    /\ Finite(s)
    /\ traverse(s).items = m
    /\ len(s) = Len(m)

\* The result r of a call on the cache agrees with the result mr of the list's.
Agrees(r, mr) == r.ret = mr.ret /\ Stands(r.s, mr.m)

\* C18: the cache refines the reference LRU list. Whenever a cache of capacity
\* >= 1 stands for a duplicate-free list of at most capacity pairs, every
\* operation returns what the list's operation returns and leaves a cache that
\* stands for the list the operation leaves; the empty cache stands for the
\* empty list, so the two agree after every sequence of operations.
C18_RefinesReferenceList ==
    LET m == traverse(self).items
    IN  (capacity >= 1 /\ Stands(self, m) /\ NoDup(MKeys(m)))
        => /\ Len(m) <= capacity
           /\ \A k \in Keys, v \in Vals :
                  /\ Agrees(insert(self, k, v), m_insert(m, capacity, k, v))
                  /\ Agrees(get_mut(self, k, v), m_get_mut(m, k, v))
           /\ \A k \in Keys : Agrees(get(self, k), m_get(m, k))
           /\ Agrees(remove_lru(self), m_remove_lru(m))
           /\ Stands(clear(self), <<>>)

\* The results r1 and r2 of one call on two caches cannot be told apart, now or
\* later: the same return value, and two caches that are either the same in
\* every field or both empty.
Alike(r1, r2) ==
    /\ r1.ret = r2.ret
    /\ \/ r1.s = r2.s
       \/ /\ ~r1.s.panic /\ ~r2.s.panic
          /\ len(r1.s) = 0 /\ len(r2.s) = 0
          /\ r1.s.capacity = r2.s.capacity

\* C19: the head and tail an empty cache is left with are never observable. An
\* empty cache of capacity >= 1, however it was emptied, yields what a fresh
\* cache of that capacity yields to iter(), and every operation returns the same
\* on both and leaves them the same in every field or both empty; so any two
\* empty caches of one capacity agree on every later sequence of operations.
C19_StaleEndsUnobservable ==
    (~panicked /\ capacity >= 1 /\ len(self) = 0)
    => LET fresh == new(capacity)
       IN  /\ traverse(self).end = "done"
           /\ traverse(self).items = traverse(fresh).items
           /\ \A k \in Keys, v \in Vals :
                  /\ Alike(insert(self, k, v), insert(fresh, k, v))
                  /\ Alike(get_mut(self, k, v), get_mut(fresh, k, v))
           /\ \A k \in Keys : Alike(get(self, k), get(fresh, k))
           /\ Alike(remove_lru(self), remove_lru(fresh))
           /\ Alike([s |-> clear(self), ret |-> None], [s |-> clear(fresh), ret |-> None])

\* A cache drained by remove_lru() whose head and tail differ from a fresh one's.
C19_Witness ==
    /\ ~panicked
    /\ last = "remove_lru"
    /\ len(self) = 0
    /\ capacity >= 1
    /\ head # 0
    /\ tail # 0

\* C20: a cache built with capacity 0 supports insert: the call completes
\* without a panic and leaves len() <= capacity().
C20_ZeroCapacityInsert ==
    [][\A k \in Keys, v \in Vals :
          (capacity = 0 /\ Insert(k, v))
          => ~panicked' /\ len(self') <= capacity']_vars

====
